---- MODULE Spec2Model ----
(***************************************************************************)
(* Model of projects/wgpu03/src/main.rs: the winit ApplicationHandler      *)
(* `App` (six independently optional fields), its handlers `resumed` and   *)
(* `window_event`, and `main`.  Each handler is a sequence of steps        *)
(* tracked by `pc`; the event loop delivers an event only when `pc` is     *)
(* "idle", i.e. handlers run serially and to completion.                   *)
(***************************************************************************)
EXTENDS Integers, Sequences, FiniteSets, TLC

\* ---------------------------------------------------------------- bounds
\* Largest window dimension the platform reports or requests (u32 values).
MaxDim == 2
\* How many times the platform delivers the activate/resume signal.
MaxResumes == 2
\* How many window events the platform delivers in one run.
MaxEvents == 3
\* How many already queued window events are still delivered after exit().
MaxPostExit == 1

\* ------------------------------------------------------ program constants
\* desired_maximum_frame_latency of the SurfaceConfiguration.
FrameLatency == 2
\* rpass.draw(0..3, 0..1): end of the vertex range and of the instance range.
DrawVertexEnd == 3
DrawInstanceEnd == 1
\* std::process::exit codes of main.
ExitOk == 0
ExitErr == 1

\* ------------------------------------------------------------- Option<T>
None == <<>>
Some(x) == <<x>>
IsSome(o) == o # <<>>
IsNone(o) == o = <<>>
Unwrap(o) == o[1]

Dims == 0..MaxDim
\* Format lists a surface can report for an adapter that was requested as
\* compatible with it (never empty); formats are 1 and 2.
CapsChoices == {<<1>>, <<1, 2>>, <<2, 1>>}

VARIABLES
    pc,        \* position: "main", "idle", a handler step, "aborted", "process_exit"
    idx,       \* index into StoreOrder / ReleaseOrder inside the store and release loops
    app,       \* the App struct: window, config, surface, device, queue, render_pipeline
    loc,       \* the locals of resumed's async block
    exiting,   \* target.exit() has been called
    exit_code, \* Option: the status main passed to std::process::exit
    run_result, \* the match arm main took: "none", "new_err", "ok", "err"
    handler,   \* the handler that is running or ran last
    outcome,   \* how that handler ended: "running", "done", "skipped", "acquire_failed", "panic"
    ops,       \* the calls that handler has made so far, in order
    pre,       \* app as it was when that handler started
    req,       \* the size carried by the Resized event being handled
    applied,   \* Option: the last (surface, config) given to surface.configure
    created,   \* how many of each entity have been created in this run
    pending,   \* queue submissions the device has not been waited on since
    frame,     \* the frame of the current redraw: "none", "acquired", "presented"
    passes,    \* the render passes recorded into the current encoder
    submitted, \* the command buffers submitted by the current handler
    nev,       \* window events delivered so far
    npost      \* window events delivered after exit() was called

vars == <<pc, idx, app, loc, exiting, exit_code, run_result, handler, outcome, ops, pre, req,
          applied, created, pending, frame, passes, submitted, nev, npost>>

\* The fields of App, all None (#[derive(Default)]).
AppDefault ==
    [window |-> None, config |-> None, surface |-> None,
     device |-> None, queue |-> None, render_pipeline |-> None]

\* The locals of resumed before any of them is bound.
NoLocals ==
    [window |-> None, size |-> None, instance |-> None, surface |-> None,
     adapter |-> None, device |-> None, queue |-> None, caps |-> None,
     format |-> None, config |-> None, render_pipeline |-> None]

NoCreated ==
    [window |-> 0, surface |-> 0, device |-> 0, queue |-> 0, render_pipeline |-> 0]

\* Max1 with the clamp forgotten.
Max1_NoClamp(x) == x

\* u32::max(self, 1)
Max1(x) == IF x > 1 THEN x ELSE 1

\* SurfaceConfiguration with width and height taken from the wrong fields.
SurfaceConfiguration_Swapped(format, size) ==
    [usage |-> "RENDER_ATTACHMENT",
     format |-> format,
     width |-> size.height,
     height |-> size.width,
     present_mode |-> "Mailbox",
     desired_maximum_frame_latency |-> FrameLatency,
     alpha_mode |-> "Auto",
     view_formats |-> <<>>]

\* wgpu::SurfaceConfiguration built by resumed.
SurfaceConfiguration(format, size) ==
    [usage |-> "RENDER_ATTACHMENT",
     format |-> format,
     width |-> size.width,
     height |-> size.height,
     present_mode |-> "Mailbox",
     desired_maximum_frame_latency |-> FrameLatency,
     alpha_mode |-> "Auto",
     view_formats |-> <<>>]

Call(name) == Append(ops, name)

Init ==
    /\ pc = "main"
    /\ idx = 0
    /\ app = AppDefault
    /\ loc = NoLocals
    /\ exiting = FALSE
    /\ exit_code = None
    /\ run_result = "none"
    /\ handler = "none"
    /\ outcome = "done"
    /\ ops = <<>>
    /\ pre = AppDefault
    /\ req = [width |-> 0, height |-> 0]
    /\ applied = None
    /\ created = NoCreated
    /\ pending = 0
    /\ frame = "none"
    /\ passes = <<>>
    /\ submitted = <<>>
    /\ nev = 0
    /\ npost = 0

\* ------------------------------------------------------------------ main
\* EventLoop::new() succeeds; App::default() is built and run_app starts.
MainEventLoopOk ==
    /\ pc = "main"
    /\ pc' = "idle"
    /\ UNCHANGED <<idx, app, loc, exiting, exit_code, run_result, handler, outcome, ops, pre, req,
                   applied, created, pending, frame, passes, submitted, nev, npost>>

\* EventLoop::new() fails: the message is printed and the process exits with 1.
MainEventLoopErr ==
    /\ pc = "main"
    /\ pc' = "process_exit"
    /\ run_result' = "new_err"
    /\ exit_code' = Some(ExitErr)
    /\ UNCHANGED <<idx, app, loc, exiting, handler, outcome, ops, pre, req,
                   applied, created, pending, frame, passes, submitted, nev, npost>>

\* run_app returns Ok once exit() has been requested and no handler is running.
RunAppOk ==
    /\ pc = "idle"
    /\ exiting
    /\ pc' = "process_exit"
    /\ run_result' = "ok"
    /\ exit_code' = Some(ExitOk)
    /\ UNCHANGED <<idx, app, loc, exiting, handler, outcome, ops, pre, req,
                   applied, created, pending, frame, passes, submitted, nev, npost>>

\* RunAppErr that exits with the status of a normal termination.
RunAppErr_ExitsZero ==
    /\ pc = "idle"
    /\ pc' = "process_exit"
    /\ run_result' = "err"
    /\ exit_code' = Some(ExitOk)
    /\ UNCHANGED <<idx, app, loc, exiting, handler, outcome, ops, pre, req,
                   applied, created, pending, frame, passes, submitted, nev, npost>>

\* run_app returns Err: the message is printed and the process exits with 1.
RunAppErr ==
    /\ pc = "idle"
    /\ pc' = "process_exit"
    /\ run_result' = "err"
    /\ exit_code' = Some(ExitErr)
    /\ UNCHANGED <<idx, app, loc, exiting, handler, outcome, ops, pre, req,
                   applied, created, pending, frame, passes, submitted, nev, npost>>

\* Panic replaced by reporting the failure and returning from the handler.
Panic_Swallowed ==
    /\ pc' = "idle"
    /\ outcome' = "panic"
    /\ UNCHANGED <<exit_code, run_result>>

\* A panic inside a handler (unwrap / expect / a wgpu validation panic): the
\* handler stops where it is, no later handler runs, the process ends.
Panic ==
    /\ pc' = "aborted"
    /\ outcome' = "panic"
    /\ UNCHANGED <<exit_code, run_result>>

\* Every handler starts the same way: the event loop hands it control and the
\* bookkeeping of the previous handler is cleared.
BeginHandler(h, first) ==
    /\ pc = "idle"
    /\ pc' = first
    /\ handler' = h
    /\ outcome' = "running"
    /\ ops' = <<>>
    /\ pre' = app
    /\ frame' = "none"
    /\ passes' = <<>>
    /\ submitted' = <<>>

\* ---------------------------------------------------------- App::resumed
\* The platform delivers the activate/resume signal: at startup, and possibly
\* again later.  Nothing in resumed looks at the fields that are already set.
DeliverResumed ==
    /\ ~exiting
    /\ created.window < MaxResumes
    /\ BeginHandler("resumed", "r_window")
    /\ loc' = NoLocals
    /\ UNCHANGED <<idx, app, exiting, exit_code, run_result, req, applied, created, pending,
                   nev, npost>>

\* event_loop.create_window(..).unwrap(), wrapped in Arc::new
ResumedCreateWindow ==
    /\ pc = "r_window"
    /\ \/ /\ created' = [created EXCEPT !.window = @ + 1]
          /\ loc' = [loc EXCEPT !.window = Some(created.window + 1)]
          /\ ops' = Call("create_window")
          /\ pc' = "r_size"
          /\ UNCHANGED <<outcome, exit_code, run_result>>
       \/ /\ Panic
          /\ UNCHANGED <<created, loc, ops>>
    /\ UNCHANGED <<idx, app, exiting, handler, pre, req, applied, pending, frame,
                   passes, submitted, nev, npost>>

\* let size = window.inner_size(): whatever the platform reports, zero included
ResumedInnerSize ==
    /\ pc = "r_size"
    /\ \E w \in Dims, h \in Dims :
          loc' = [loc EXCEPT !.size = Some([width |-> w, height |-> h])]
    /\ pc' = "r_instance"
    /\ UNCHANGED <<idx, app, exiting, exit_code, run_result, handler, outcome, ops, pre, req,
                   applied, created, pending, frame, passes, submitted, nev, npost>>

\* wgpu::Instance::new(..)
ResumedInstance ==
    /\ pc = "r_instance"
    /\ loc' = [loc EXCEPT !.instance = Some(1)]
    /\ ops' = Call("Instance::new")
    /\ pc' = "r_surface"
    /\ UNCHANGED <<idx, app, exiting, exit_code, run_result, handler, outcome, pre, req,
                   applied, created, pending, frame, passes, submitted, nev, npost>>

\* instance.create_surface(window.clone()).expect(..)
ResumedCreateSurface ==
    /\ pc = "r_surface"
    /\ \/ /\ created' = [created EXCEPT !.surface = @ + 1]
          /\ loc' = [loc EXCEPT !.surface = Some(created.surface + 1)]
          /\ ops' = Call("create_surface")
          /\ pc' = "r_adapter"
          /\ UNCHANGED <<outcome, exit_code, run_result>>
       \/ /\ Panic
          /\ UNCHANGED <<created, loc, ops>>
    /\ UNCHANGED <<idx, app, exiting, handler, pre, req, applied, pending, frame,
                   passes, submitted, nev, npost>>

\* instance.request_adapter(..).await.expect(..)
ResumedRequestAdapter ==
    /\ pc = "r_adapter"
    /\ \/ /\ loc' = [loc EXCEPT !.adapter = Some(1)]
          /\ ops' = Call("request_adapter")
          /\ pc' = "r_device"
          /\ UNCHANGED <<outcome, exit_code, run_result>>
       \/ /\ Panic
          /\ UNCHANGED <<loc, ops>>
    /\ UNCHANGED <<idx, app, exiting, handler, pre, req, applied, created, pending,
                   frame, passes, submitted, nev, npost>>

\* let (device, queue) = adapter.request_device(..).await.expect(..)
ResumedRequestDevice ==
    /\ pc = "r_device"
    /\ \/ /\ created' = [created EXCEPT !.device = @ + 1, !.queue = @ + 1]
          /\ loc' = [loc EXCEPT !.device = Some(created.device + 1),
                                !.queue = Some(created.queue + 1)]
          /\ ops' = Call("request_device")
          /\ pc' = "r_caps"
          /\ UNCHANGED <<outcome, exit_code, run_result>>
       \/ /\ Panic
          /\ UNCHANGED <<created, loc, ops>>
    /\ UNCHANGED <<idx, app, exiting, handler, pre, req, applied, pending, frame,
                   passes, submitted, nev, npost>>

\* let caps = surface.get_capabilities(&adapter); let format = caps.formats[0]
ResumedCapabilities ==
    /\ pc = "r_caps"
    /\ \E formats \in CapsChoices :
          loc' = [loc EXCEPT !.caps = Some(formats), !.format = Some(formats[1])]
    /\ ops' = Call("get_capabilities")
    /\ pc' = "r_config"
    /\ UNCHANGED <<idx, app, exiting, exit_code, run_result, handler, outcome, pre, req,
                   applied, created, pending, frame, passes, submitted, nev, npost>>

\* let config = wgpu::SurfaceConfiguration { .. width: size.width, height: size.height .. }
ResumedBuildConfig ==
    /\ pc = "r_config"
    /\ loc' = [loc EXCEPT !.config =
                  Some(SurfaceConfiguration(Unwrap(loc.format), Unwrap(loc.size)))]
    /\ pc' = "r_configure"
    /\ UNCHANGED <<idx, app, exiting, exit_code, run_result, handler, outcome, ops, pre, req,
                   applied, created, pending, frame, passes, submitted, nev, npost>>

\* surface.configure(&device, &config).  wgpu documents that configure panics
\* when config.width or config.height is zero.
ResumedConfigure ==
    /\ pc = "r_configure"
    /\ LET c == Unwrap(loc.config) IN
         IF c.width = 0 \/ c.height = 0
         THEN /\ Panic
              /\ UNCHANGED <<applied, ops>>
         ELSE /\ applied' = Some([surface |-> Unwrap(loc.surface), config |-> c])
              /\ ops' = Call("configure")
              /\ pc' = "r_pipeline"
              /\ UNCHANGED <<outcome, exit_code, run_result>>
    /\ UNCHANGED <<idx, app, loc, exiting, handler, pre, req, created, pending,
                   frame, passes, submitted, nev, npost>>

\* create_shader_module, create_pipeline_layout, create_render_pipeline
ResumedCreatePipeline ==
    /\ pc = "r_pipeline"
    /\ created' = [created EXCEPT !.render_pipeline = @ + 1]
    /\ loc' = [loc EXCEPT !.render_pipeline = Some(created.render_pipeline + 1)]
    /\ ops' = ops \o <<"create_shader_module", "create_pipeline_layout",
                       "create_render_pipeline">>
    /\ pc' = "r_poll"
    /\ UNCHANGED <<idx, app, exiting, exit_code, run_result, handler, outcome, pre, req,
                   applied, pending, frame, passes, submitted, nev, npost>>

\* ResumedPoll that goes on to store the fields without waiting for the device.
ResumedPoll_NoWait ==
    /\ pc = "r_poll"
    /\ pc' = "r_store"
    /\ idx' = 1
    /\ UNCHANGED <<app, loc, exiting, exit_code, run_result, handler, outcome, ops, pre, req,
                   applied, created, pending, frame, passes, submitted, nev, npost>>

\* device.poll(wgpu::Maintain::Wait)
ResumedPoll ==
    /\ pc = "r_poll"
    /\ pending' = 0
    /\ ops' = Call("poll")
    /\ pc' = "r_store"
    /\ idx' = 1
    /\ UNCHANGED <<app, loc, exiting, exit_code, run_result, handler, outcome, pre, req,
                   applied, created, frame, passes, submitted, nev, npost>>

\* StoreOrder with the assignment of self.queue forgotten.
StoreOrder_NoQueue ==
    <<"window", "config", "surface", "device", "render_pipeline">>

\* The order of the six assignments self.<field> = Some(<local>).
StoreOrder ==
    <<"window", "config", "surface", "device", "queue", "render_pipeline">>

\* One of the assignments self.<field> = Some(<local>), in StoreOrder.
ResumedStore ==
    /\ pc = "r_store"
    /\ idx <= Len(StoreOrder)
    /\ app' = [app EXCEPT ![StoreOrder[idx]] = loc[StoreOrder[idx]]]
    /\ idx' = idx + 1
    /\ UNCHANGED <<pc, loc, exiting, exit_code, run_result, handler, outcome, ops, pre, req,
                   applied, created, pending, frame, passes, submitted, nev, npost>>

\* println!(..); the block ends, block_on and resumed return.
ResumedDone ==
    /\ pc = "r_store"
    /\ idx > Len(StoreOrder)
    /\ pc' = "idle"
    /\ idx' = 0
    /\ outcome' = "done"
    /\ loc' = NoLocals
    /\ UNCHANGED <<app, exiting, exit_code, run_result, handler, ops, pre, req,
                   applied, created, pending, frame, passes, submitted, nev, npost>>

\* ------------------------------------------------------ App::window_event
\* The event loop delivers a window event.  Window events exist only once a
\* window has been created; after exit() only the few events that were
\* already queued are still delivered.
DeliverWindowEvent(h, first) ==
    /\ created.window > 0
    /\ nev < MaxEvents
    /\ exiting => npost < MaxPostExit
    /\ BeginHandler(h, first)
    /\ nev' = nev + 1
    /\ npost' = IF exiting THEN npost + 1 ELSE npost

\* if let (Some(config), Some(surface), Some(device)) = (..)
ResizedGuard(a) ==
    IsSome(a.config) /\ IsSome(a.surface) /\ IsSome(a.device)

\* RedrawGuard that lets the arm run whatever the fields hold.
RedrawGuard_Unchecked(a) == a = a

\* if let (Some(surface), Some(device), Some(queue), Some(render_pipeline)) = (..)
RedrawGuard(a) ==
    IsSome(a.surface) /\ IsSome(a.device) /\ IsSome(a.queue) /\ IsSome(a.render_pipeline)

\* WindowEvent::Resized(size) arrives, with any size the platform may send.
DeliverResized ==
    /\ DeliverWindowEvent("Resized", "z_match")
    /\ \E w \in Dims, h \in Dims : req' = [width |-> w, height |-> h]
    /\ UNCHANGED <<idx, app, loc, exiting, exit_code, run_result, applied, created, pending>>

\* The if-let of the Resized arm does not match: the arm does nothing.
ResizedSkip ==
    /\ pc = "z_match"
    /\ ~ResizedGuard(app)
    /\ pc' = "idle"
    /\ outcome' = "skipped"
    /\ UNCHANGED <<idx, app, loc, exiting, exit_code, run_result, handler, ops, pre, req,
                   applied, created, pending, frame, passes, submitted, nev, npost>>

\* ResizedSetSize that builds a fresh configuration for the new size (and
\* picks another present mode) in place of updating the stored one.
ResizedSetSize_Rebuild ==
    /\ pc = "z_match"
    /\ ResizedGuard(app)
    /\ app' = [app EXCEPT !.config =
                  Some([SurfaceConfiguration(Unwrap(@).format,
                                             [width |-> Max1(req.width),
                                              height |-> Max1(req.height)])
                        EXCEPT !.present_mode = "Fifo"])]
    /\ pc' = "z_configure"
    /\ UNCHANGED <<idx, loc, exiting, exit_code, run_result, handler, outcome, ops, pre, req,
                   applied, created, pending, frame, passes, submitted, nev, npost>>

\* config.width = size.width.max(1); config.height = size.height.max(1)
ResizedSetSize ==
    /\ pc = "z_match"
    /\ ResizedGuard(app)
    /\ app' = [app EXCEPT !.config =
                  Some([Unwrap(@) EXCEPT !.width = Max1(req.width),
                                         !.height = Max1(req.height)])]
    /\ pc' = "z_configure"
    /\ UNCHANGED <<idx, loc, exiting, exit_code, run_result, handler, outcome, ops, pre, req,
                   applied, created, pending, frame, passes, submitted, nev, npost>>

\* ResizedConfigure with the call of surface.configure forgotten.
ResizedConfigure_Skipped ==
    /\ pc = "z_configure"
    /\ pc' = "z_poll"
    /\ UNCHANGED <<idx, app, loc, exiting, exit_code, run_result, handler, outcome, ops,
                   pre, req, applied, created, pending, frame, passes, submitted,
                   nev, npost>>

\* surface.configure(device, config)
ResizedConfigure ==
    /\ pc = "z_configure"
    /\ LET c == Unwrap(app.config) IN
         IF c.width = 0 \/ c.height = 0
         THEN /\ Panic
              /\ UNCHANGED <<applied, ops>>
         ELSE /\ applied' = Some([surface |-> Unwrap(app.surface), config |-> c])
              /\ ops' = Call("configure")
              /\ pc' = "z_poll"
              /\ UNCHANGED <<outcome, exit_code, run_result>>
    /\ UNCHANGED <<idx, app, loc, exiting, handler, pre, req, created, pending,
                   frame, passes, submitted, nev, npost>>

\* device.poll(wgpu::Maintain::Wait); the arm and the handler end.
ResizedPoll ==
    /\ pc = "z_poll"
    /\ pending' = 0
    /\ ops' = Call("poll")
    /\ pc' = "idle"
    /\ outcome' = "done"
    /\ UNCHANGED <<idx, app, loc, exiting, exit_code, run_result, handler, pre, req,
                   applied, created, frame, passes, submitted, nev, npost>>

\* WindowEvent::CloseRequested arrives.
DeliverCloseRequested ==
    /\ DeliverWindowEvent("CloseRequested", "c_wait")
    /\ UNCHANGED <<idx, app, loc, exiting, exit_code, run_result, req, applied, created, pending>>

\* CloseWait that goes on to the releases without waiting for the device.
CloseWait_NoWait ==
    /\ pc = "c_wait"
    /\ pc' = "c_release"
    /\ idx' = 1
    /\ UNCHANGED <<app, loc, exiting, exit_code, run_result, handler, outcome, ops, pre,
                   req, applied, created, pending, frame, passes, submitted, nev, npost>>

\* if let Some(device) = &self.device { device.poll(wgpu::Maintain::Wait); }
CloseWait ==
    /\ pc = "c_wait"
    /\ IF IsSome(app.device)
       THEN pending' = 0 /\ ops' = Call("poll")
       ELSE UNCHANGED <<pending, ops>>
    /\ pc' = "c_release"
    /\ idx' = 1
    /\ UNCHANGED <<app, loc, exiting, exit_code, run_result, handler, outcome, pre, req,
                   applied, created, frame, passes, submitted, nev, npost>>

\* The entry a release leaves in ops.
AssignNone(f) ==
    CASE f = "render_pipeline" -> "render_pipeline = None"
      [] f = "queue" -> "queue = None"
      [] f = "device" -> "device = None"
      [] f = "surface" -> "surface = None"
      [] f = "config" -> "config = None"
      [] f = "window" -> "window = None"

\* ReleaseOrder with the device released before the queue.
ReleaseOrder_DeviceFirst ==
    <<"render_pipeline", "device", "queue", "surface", "config", "window">>

\* The order of the six assignments self.<field> = None.
ReleaseOrder ==
    <<"render_pipeline", "queue", "device", "surface", "config", "window">>

\* One of the assignments self.<field> = None, in ReleaseOrder.
CloseRelease ==
    /\ pc = "c_release"
    /\ idx <= Len(ReleaseOrder)
    /\ app' = [app EXCEPT ![ReleaseOrder[idx]] = None]
    /\ ops' = Call(AssignNone(ReleaseOrder[idx]))
    /\ idx' = idx + 1
    /\ UNCHANGED <<pc, loc, exiting, exit_code, run_result, handler, outcome, pre, req,
                   applied, created, pending, frame, passes, submitted, nev, npost>>

\* CloseExit with the call of target.exit() forgotten.
CloseExit_NoExit ==
    /\ pc = "c_release"
    /\ idx > Len(ReleaseOrder)
    /\ pc' = "idle"
    /\ idx' = 0
    /\ outcome' = "done"
    /\ UNCHANGED <<app, loc, exiting, exit_code, run_result, handler, ops, pre, req,
                   applied, created, pending, frame, passes, submitted, nev, npost>>

\* target.exit(); the arm and the handler end.
CloseExit ==
    /\ pc = "c_release"
    /\ idx > Len(ReleaseOrder)
    /\ exiting' = TRUE
    /\ ops' = Call("exit")
    /\ pc' = "idle"
    /\ idx' = 0
    /\ outcome' = "done"
    /\ UNCHANGED <<app, loc, exit_code, run_result, handler, pre, req,
                   applied, created, pending, frame, passes, submitted, nev, npost>>

\* WindowEvent::RedrawRequested arrives.
DeliverRedrawRequested ==
    /\ DeliverWindowEvent("RedrawRequested", "d_match")
    /\ UNCHANGED <<idx, app, loc, exiting, exit_code, run_result, req, applied, created, pending>>

\* The if-let of the RedrawRequested arm does not match: the arm does nothing.
RedrawSkip ==
    /\ pc = "d_match"
    /\ ~RedrawGuard(app)
    /\ pc' = "idle"
    /\ outcome' = "skipped"
    /\ UNCHANGED <<idx, app, loc, exiting, exit_code, run_result, handler, ops, pre, req,
                   applied, created, pending, frame, passes, submitted, nev, npost>>

\* RedrawAcquire that, on Err, reconfigures the surface and asks again.
RedrawAcquire_Retry ==
    /\ pc = "d_match"
    /\ RedrawGuard(app)
    /\ \/ /\ ops' = Call("get_current_texture")
          /\ frame' = "acquired"
          /\ pc' = "d_view"
          /\ UNCHANGED outcome
       \/ /\ ops' = ops \o <<"get_current_texture", "configure", "get_current_texture">>
          /\ pc' = "idle"
          /\ outcome' = "acquire_failed"
          /\ UNCHANGED frame
    /\ UNCHANGED <<idx, app, loc, exiting, exit_code, run_result, handler, pre, req,
                   applied, created, pending, passes, submitted, nev, npost>>

\* match surface.get_current_texture(): Ok(frame), or Err(_) => return
RedrawAcquire ==
    /\ pc = "d_match"
    /\ RedrawGuard(app)
    /\ \/ /\ ops' = Call("get_current_texture")
          /\ frame' = "acquired"
          /\ pc' = "d_view"
          /\ UNCHANGED outcome
       \/ /\ ops' = Call("get_current_texture")
          /\ pc' = "idle"
          /\ outcome' = "acquire_failed"
          /\ UNCHANGED frame
    /\ UNCHANGED <<idx, app, loc, exiting, exit_code, run_result, handler, pre, req,
                   applied, created, pending, passes, submitted, nev, npost>>

\* frame.texture.create_view(..)
RedrawCreateView ==
    /\ pc = "d_view"
    /\ ops' = Call("create_view")
    /\ pc' = "d_encoder"
    /\ UNCHANGED <<idx, app, loc, exiting, exit_code, run_result, handler, outcome, pre, req,
                   applied, created, pending, frame, passes, submitted, nev, npost>>

\* device.create_command_encoder(..)
RedrawCreateEncoder ==
    /\ pc = "d_encoder"
    /\ passes' = <<>>
    /\ ops' = Call("create_command_encoder")
    /\ pc' = "d_begin_pass"
    /\ UNCHANGED <<idx, app, loc, exiting, exit_code, run_result, handler, outcome, pre, req,
                   applied, created, pending, frame, submitted, nev, npost>>

\* encoder.begin_render_pass(..) with color_attachments: &[Some(..)]
RedrawBeginPass ==
    /\ pc = "d_begin_pass"
    /\ passes' = Append(passes, [color_attachments |-> 1, pipeline |-> None,
                                 draws |-> <<>>])
    /\ ops' = Call("begin_render_pass")
    /\ pc' = "d_set_pipeline"
    /\ UNCHANGED <<idx, app, loc, exiting, exit_code, run_result, handler, outcome, pre, req,
                   applied, created, pending, frame, submitted, nev, npost>>

\* RedrawSetPipeline that takes the pipeline out of self (Option::take) to bind it.
RedrawSetPipeline_Take ==
    /\ pc = "d_set_pipeline"
    /\ passes' = [passes EXCEPT ![Len(passes)].pipeline = app.render_pipeline]
    /\ app' = [app EXCEPT !.render_pipeline = None]
    /\ ops' = Call("set_pipeline")
    /\ pc' = "d_draw"
    /\ UNCHANGED <<idx, loc, exiting, exit_code, run_result, handler, outcome, pre, req,
                   applied, created, pending, frame, submitted, nev, npost>>

\* rpass.set_pipeline(render_pipeline)
RedrawSetPipeline ==
    /\ pc = "d_set_pipeline"
    /\ passes' = [passes EXCEPT ![Len(passes)].pipeline = app.render_pipeline]
    /\ ops' = Call("set_pipeline")
    /\ pc' = "d_draw"
    /\ UNCHANGED <<idx, app, loc, exiting, exit_code, run_result, handler, outcome, pre, req,
                   applied, created, pending, frame, submitted, nev, npost>>

\* RedrawDraw with the vertex range one too long.
RedrawDraw_FourVertices ==
    /\ pc = "d_draw"
    /\ passes' = [passes EXCEPT ![Len(passes)].draws =
                     Append(@, [vertices |-> <<0, DrawVertexEnd + 1>>,
                                instances |-> <<0, DrawInstanceEnd>>])]
    /\ ops' = ops \o <<"draw", "end_render_pass">>
    /\ pc' = "d_submit"
    /\ UNCHANGED <<idx, app, loc, exiting, exit_code, run_result, handler, outcome, pre, req,
                   applied, created, pending, frame, submitted, nev, npost>>

\* rpass.draw(0..3, 0..1); the block ends and rpass is dropped (the pass ends).
RedrawDraw ==
    /\ pc = "d_draw"
    /\ passes' = [passes EXCEPT ![Len(passes)].draws =
                     Append(@, [vertices |-> <<0, DrawVertexEnd>>,
                                instances |-> <<0, DrawInstanceEnd>>])]
    /\ ops' = ops \o <<"draw", "end_render_pass">>
    /\ pc' = "d_submit"
    /\ UNCHANGED <<idx, app, loc, exiting, exit_code, run_result, handler, outcome, pre, req,
                   applied, created, pending, frame, submitted, nev, npost>>

\* queue.submit(Some(encoder.finish()))
RedrawSubmit ==
    /\ pc = "d_submit"
    /\ submitted' = Append(submitted, passes)
    /\ pending' = pending + 1
    /\ ops' = ops \o <<"finish", "submit">>
    /\ pc' = "d_present"
    /\ UNCHANGED <<idx, app, loc, exiting, exit_code, run_result, handler, outcome, pre, req,
                   applied, created, frame, passes, nev, npost>>

\* frame.present()
RedrawPresent ==
    /\ pc = "d_present"
    /\ frame' = "presented"
    /\ ops' = Call("present")
    /\ pc' = "d_poll"
    /\ UNCHANGED <<idx, app, loc, exiting, exit_code, run_result, handler, outcome, pre, req,
                   applied, created, pending, passes, submitted, nev, npost>>

\* RedrawPoll that returns without waiting for the device.
RedrawPoll_NoWait ==
    /\ pc = "d_poll"
    /\ pc' = "idle"
    /\ outcome' = "done"
    /\ UNCHANGED <<idx, app, loc, exiting, exit_code, run_result, handler, ops, pre, req,
                   applied, created, pending, frame, passes, submitted, nev, npost>>

\* device.poll(wgpu::Maintain::Wait); the arm and the handler end.
RedrawPoll ==
    /\ pc = "d_poll"
    /\ pending' = 0
    /\ ops' = Call("poll")
    /\ pc' = "idle"
    /\ outcome' = "done"
    /\ UNCHANGED <<idx, app, loc, exiting, exit_code, run_result, handler, pre, req,
                   applied, created, frame, passes, submitted, nev, npost>>

\* Any other window event: the arm `_ => {}`.
WindowEventOther ==
    /\ DeliverWindowEvent("other", "idle")
    /\ UNCHANGED <<idx, app, loc, exiting, exit_code, run_result, req, applied, created, pending>>

\* ------------------------------------------------------------ the system
\* A step inside a handler that is running.
HandlerStep ==
    \/ ResumedCreateWindow \/ ResumedInnerSize \/ ResumedInstance
    \/ ResumedCreateSurface \/ ResumedRequestAdapter \/ ResumedRequestDevice
    \/ ResumedCapabilities \/ ResumedBuildConfig \/ ResumedConfigure
    \/ ResumedCreatePipeline \/ ResumedPoll \/ ResumedStore \/ ResumedDone
    \/ ResizedSkip \/ ResizedSetSize \/ ResizedConfigure \/ ResizedPoll
    \/ CloseWait \/ CloseRelease \/ CloseExit
    \/ RedrawSkip \/ RedrawAcquire \/ RedrawCreateView \/ RedrawCreateEncoder
    \/ RedrawBeginPass \/ RedrawSetPipeline \/ RedrawDraw \/ RedrawSubmit
    \/ RedrawPresent \/ RedrawPoll

\* An event the platform delivers to the idle event loop.
Deliver ==
    \/ DeliverResumed \/ DeliverResized \/ DeliverCloseRequested
    \/ DeliverRedrawRequested \/ WindowEventOther

Next ==
    \/ MainEventLoopOk \/ MainEventLoopErr
    \/ Deliver
    \/ HandlerStep
    \/ RunAppOk \/ RunAppErr

Spec == Init /\ [][Next]_vars

\* A running handler runs to its end, and the event loop returns once exit()
\* has been requested and the queued events are handled.  What the platform
\* delivers, and whether the run loop fails, is left open.
FairSpec == Spec /\ WF_vars(HandlerStep) /\ WF_vars(RunAppOk)

\* ------------------------------------------------------------ properties
\* All six fields of App are set: the lifecycle state Ready.
Ready(a) ==
    /\ IsSome(a.window) /\ IsSome(a.config) /\ IsSome(a.surface)
    /\ IsSome(a.device) /\ IsSome(a.queue) /\ IsSome(a.render_pipeline)

\* The handler named h has returned (and no other has started since).
Returned(h) == pc = "idle" /\ handler = h

\* C1: whenever no handler is running, device, queue, surface and render
\* pipeline are all present or all absent.
C1_ContextAllOrNothing ==
    pc = "idle" =>
        \/ /\ IsSome(app.device) /\ IsSome(app.queue)
           /\ IsSome(app.surface) /\ IsSome(app.render_pipeline)
        \/ /\ IsNone(app.device) /\ IsNone(app.queue)
           /\ IsNone(app.surface) /\ IsNone(app.render_pipeline)

\* C1 witness: a close-requested handled in Ready has returned, after an
\* activation had set all four, and has left all four absent.
C1_Witness ==
    /\ Returned("CloseRequested")
    /\ IsSome(pre.device) /\ IsSome(pre.queue)
    /\ IsSome(pre.surface) /\ IsSome(pre.render_pipeline)
    /\ IsNone(app.device) /\ IsNone(app.queue)
    /\ IsNone(app.surface) /\ IsNone(app.render_pipeline)

\* C2: a Resized(w, h) handled in Ready stores max(w,1) x max(h,1), that is
\* what reaches surface.configure and what stays stored afterwards.
C2_ResizeClamps ==
    LET w == IF req.width = 0 THEN 1 ELSE req.width
        h == IF req.height = 0 THEN 1 ELSE req.height
    IN  /\ (handler = "Resized" /\ pc \in {"z_configure", "z_poll"}) =>
              /\ Unwrap(app.config).width = w
              /\ Unwrap(app.config).height = h
        /\ (handler = "Resized" /\ pc = "z_poll") =>
              /\ IsSome(applied)
              /\ Unwrap(applied).config.width = w
              /\ Unwrap(applied).config.height = h
              /\ Unwrap(applied).config.width >= 1
              /\ Unwrap(applied).config.height >= 1
        /\ (Returned("Resized") /\ outcome = "done") =>
              /\ Unwrap(app.config).width = w
              /\ Unwrap(app.config).height = h
              /\ Unwrap(applied).config = Unwrap(app.config)
              /\ Unwrap(applied).surface = Unwrap(app.surface)

\* C2 witness: a resize to (0,0) has been handled in Ready and left (1,1).
C2_Witness ==
    /\ Returned("Resized") /\ outcome = "done"
    /\ req = [width |-> 0, height |-> 0]
    /\ Unwrap(app.config).width = 1
    /\ Unwrap(app.config).height = 1
    /\ Unwrap(applied).config.width = 1
    /\ Unwrap(applied).config.height = 1

\* C3 (as claimed): every surface configuration that exists, the one
\* resumed builds from the window's size as well as the stored one, has
\* width and height of at least 1.
C3_ConfigDimsPositive ==
    /\ IsSome(loc.config) =>
          Unwrap(loc.config).width >= 1 /\ Unwrap(loc.config).height >= 1
    /\ IsSome(app.config) =>
          Unwrap(app.config).width >= 1 /\ Unwrap(app.config).height >= 1

\* C4: a redraw whose frame acquisition failed has made that one call and
\* no other (no second acquisition, no submit, no present), has submitted
\* nothing, and has left every field of App as it found it.
C4_AcquireFailureIsNoOp ==
    (Returned("RedrawRequested") /\ outcome = "acquire_failed") =>
        /\ ops = <<"get_current_texture">>
        /\ submitted = <<>>
        /\ passes = <<>>
        /\ pending = 0
        /\ frame = "none"
        /\ app = pre

\* C4 witness: a redraw in Ready whose acquisition failed has returned.
C4_Witness ==
    /\ Returned("RedrawRequested") /\ outcome = "acquire_failed"
    /\ Ready(pre)

\* C5: a close-requested handler, whatever the state it starts in, returns
\* with exit() signalled, and the event loop then terminates.
C5_CloseLeadsToExit ==
    /\ [](Returned("CloseRequested") => exiting)
    /\ (handler = "CloseRequested" /\ pc = "c_wait") ~> (pc = "process_exit")

\* C5 witness: a close-requested handled when everything was already
\* released has signalled exit, and run_app has returned.
C5_Witness ==
    /\ pc = "process_exit"
    /\ handler = "CloseRequested"
    /\ ~Ready(pre) /\ IsNone(pre.device)
    /\ exiting
    /\ ops[Len(ops)] = "exit"

\* C6: a close-requested handler releases pipeline, queue, device, surface,
\* config, window in that order, calls exit() only after all six, and
\* leaves all six fields absent.
C6_OrderedRelease ==
    LET release == <<"render_pipeline = None", "queue = None", "device = None",
                     "surface = None", "config = None", "window = None", "exit">>
    IN  /\ Returned("CloseRequested") =>
              /\ ops = IF IsSome(pre.device) THEN <<"poll">> \o release ELSE release
              /\ app = AppDefault
        /\ (handler = "CloseRequested" /\ pc = "c_release") =>
              ~(\E i \in 1..Len(ops) : ops[i] = "exit")

\* C6 witness: a close-requested handled in Ready has returned.
C6_Witness ==
    /\ Returned("CloseRequested")
    /\ Ready(pre)
    /\ app = AppDefault
    /\ exiting

\* C7: a resize or redraw handled when not every field is set makes no call
\* at all (no configure, acquire, submit, present) and changes nothing; and
\* a frame is only ever acquired by a handler that found every field set.
C7_NotReadyIsNoOp ==
    /\ (pc = "idle" /\ handler \in {"Resized", "RedrawRequested"} /\ ~Ready(pre)) =>
          /\ outcome = "skipped"
          /\ ops = <<>>
          /\ submitted = <<>>
          /\ frame = "none"
          /\ pending = 0
          /\ app = pre
    /\ (handler = "RedrawRequested" /\ ops # <<>>) => Ready(pre) /\ loc = NoLocals

\* C7 witness: a redraw delivered after close-requested was handled has
\* returned without doing anything.
C7_Witness ==
    /\ Returned("RedrawRequested")
    /\ exiting
    /\ ~Ready(pre)
    /\ outcome = "skipped"

\* C8 (as claimed): no window, surface, device, queue or render pipeline is
\* created a second time in one run.
C8_NoEntityRecreated ==
    /\ created.window <= 1
    /\ created.surface <= 1
    /\ created.device <= 1
    /\ created.queue <= 1
    /\ created.render_pipeline <= 1

\* C9: a redraw that acquired its frame makes its calls in the order
\* acquire, record, submit, present, wait, and returns only after the wait:
\* between handlers no submitted work is pending and no frame is held, and
\* the acquired frame has been presented once.
C9_RedrawOrderAndWait ==
    /\ (Returned("RedrawRequested") /\ outcome = "done") =>
          /\ ops = <<"get_current_texture", "create_view", "create_command_encoder",
                     "begin_render_pass", "set_pipeline", "draw", "end_render_pass",
                     "finish", "submit", "present", "poll">>
          /\ frame = "presented"
    /\ pc = "idle" => pending = 0 /\ frame # "acquired"
    /\ pending <= 1

\* C9 witness: a redraw that acquired its frame has returned.
C9_Witness ==
    /\ Returned("RedrawRequested") /\ outcome = "done"
    /\ frame = "presented"
    /\ pending = 0

\* C10: a redraw that acquired its frame has submitted one command buffer,
\* holding one render pass with one color attachment and one draw of
\* vertices [0,3) and instances [0,1).
C10_OnePassOneDraw ==
    (Returned("RedrawRequested") /\ outcome = "done") =>
        /\ Len(submitted) = 1
        /\ Len(submitted[1]) = 1
        /\ submitted[1][1].color_attachments = 1
        /\ submitted[1][1].pipeline = app.render_pipeline
        /\ submitted[1][1].draws = <<[vertices |-> <<0, 3>>, instances |-> <<0, 1>>]>>
        /\ Cardinality({i \in 1..Len(ops) : ops[i] = "submit"}) = 1
        /\ Cardinality({i \in 1..Len(ops) : ops[i] = "begin_render_pass"}) = 1
        /\ Cardinality({i \in 1..Len(ops) : ops[i] = "draw"}) = 1

\* C10 witness: a redraw in Ready has submitted its command buffer and returned.
C10_Witness ==
    /\ Returned("RedrawRequested") /\ outcome = "done"
    /\ Ready(pre)
    /\ Len(submitted) = 1

\* The parts of a configuration a resize is not meant to touch.
ConfigRest(c) == [c EXCEPT !.width = 0, !.height = 0]

\* C11: while and after a Resized is handled, window, surface, device, queue
\* and render pipeline are the ones the handler found, the configuration
\* differs from the one it found in width and height at most, and the only
\* calls made are configure (on the surface it found) and poll.
C11_ResizeChangesOnlySize ==
    handler = "Resized" =>
        /\ app.window = pre.window
        /\ app.surface = pre.surface
        /\ app.device = pre.device
        /\ app.queue = pre.queue
        /\ app.render_pipeline = pre.render_pipeline
        /\ IsSome(app.config) = IsSome(pre.config)
        /\ IsSome(app.config) =>
              ConfigRest(Unwrap(app.config)) = ConfigRest(Unwrap(pre.config))
        /\ \A i \in 1..Len(ops) : ops[i] \in {"configure", "poll"}
        /\ ops # <<>> =>
              /\ Some(Unwrap(applied).surface) = pre.surface
              /\ ConfigRest(Unwrap(applied).config) = ConfigRest(Unwrap(pre.config))

\* C11 witness: a resize handled in Ready has returned and has changed the
\* stored width.
C11_Witness ==
    /\ Returned("Resized") /\ outcome = "done"
    /\ Ready(pre)
    /\ Unwrap(app.config).width # Unwrap(pre.config).width

\* C12: the configuration resumed builds, applies and stores has the width
\* and height window.inner_size() reported, the first format of the list the
\* surface reported, and a frame-latency cap of 2.
C12_ActivationConfig ==
    /\ (handler = "resumed" /\ IsSome(loc.config)) =>
          /\ Unwrap(loc.config).width = Unwrap(loc.size).width
          /\ Unwrap(loc.config).height = Unwrap(loc.size).height
          /\ Unwrap(loc.config).format = Unwrap(loc.caps)[1]
          /\ Unwrap(loc.config).desired_maximum_frame_latency = 2
    /\ (handler = "resumed" /\ pc \in {"r_pipeline", "r_poll", "r_store"}) =>
          /\ Unwrap(applied).config = Unwrap(loc.config)
          /\ Unwrap(applied).surface = Unwrap(loc.surface)
    /\ (handler = "resumed" /\ pc = "r_store" /\ idx > 6) =>
          app.config = loc.config
    /\ (Returned("resumed") /\ outcome = "done") =>
          /\ Unwrap(app.config) = Unwrap(applied).config
          /\ Unwrap(app.config).desired_maximum_frame_latency = 2

\* C12 witness: an activation with a 2x1 window and reported formats <<2, 1>>
\* has stored a 2x1 configuration of format 2 and is about to return.
C12_Witness ==
    /\ handler = "resumed" /\ pc = "r_store" /\ idx > 6
    /\ Unwrap(loc.size) = [width |-> 2, height |-> 1]
    /\ Unwrap(loc.caps) = <<2, 1>>
    /\ Unwrap(app.config).width = 2
    /\ Unwrap(app.config).height = 1
    /\ Unwrap(app.config).format = 2
    /\ Unwrap(applied).config = Unwrap(app.config)

\* C13: resumed makes its calls in the order window, instance, surface,
\* adapter, device and queue, capabilities, configure, pipeline, poll, with
\* the configuration built after the format is selected and before it is
\* applied; no field of App is written before the poll has returned; and
\* while resumed is between its first and last step no other handler runs.
C13_ActivationOrder ==
    LET order == <<"create_window", "Instance::new", "create_surface",
                   "request_adapter", "request_device", "get_capabilities",
                   "configure", "create_shader_module", "create_pipeline_layout",
                   "create_render_pipeline", "poll">>
    IN  /\ handler = "resumed" =>
              /\ Len(ops) <= Len(order)
              /\ ops = SubSeq(order, 1, Len(ops))
              /\ app # pre => ops = order
              /\ IsSome(loc.config) => Len(ops) >= 6
              /\ (Len(ops) >= 7 /\ outcome = "running") => IsSome(loc.config)
        /\ (Returned("resumed") /\ outcome = "done") => ops = order /\ Ready(app)
        /\ loc # NoLocals => handler = "resumed" /\ outcome \in {"running", "panic"}

\* C13 witness: an activation has run to its end and returned with every
\* field set, its last call being the poll.
C13_Witness ==
    /\ Returned("resumed") /\ outcome = "done"
    /\ Ready(app)
    /\ Len(ops) = 11
    /\ ops[11] = "poll"

\* C14: a failure during activation (window, surface, adapter or device)
\* ends the process there: the failed call is not made again, no field of
\* App has been written, and nothing runs afterwards.
C14_FailureAborts ==
    /\ [](outcome = "panic" =>
            /\ pc = "aborted"
            /\ handler = "resumed"
            /\ app = pre
            /\ \A i, j \in 1..Len(ops) : ops[i] = ops[j] => i = j
            /\ ~(\E i \in 1..Len(ops) : ops[i] = "poll"))
    /\ [](pc = "aborted" => outcome = "panic")
    /\ [][pc # "aborted"]_vars

\* C14 witness: the adapter request of a first activation failed, after the
\* window and the surface were created; the process has aborted with no
\* field set.
C14_Witness ==
    /\ pc = "aborted"
    /\ ops = <<"create_window", "Instance::new", "create_surface">>
    /\ app = AppDefault
    /\ IsSome(loc.surface) /\ IsNone(loc.adapter)

\* C15: the process exits with 0 exactly when run_app returned Ok, and with
\* 1 when EventLoop::new or run_app returned Err; main exits only through
\* one of these three arms; and when EventLoop::new failed no handler has
\* run and nothing has been created.
C15_ExitCodes ==
    /\ IsSome(exit_code) <=> pc = "process_exit"
    /\ pc = "process_exit" <=> run_result # "none"
    /\ pc = "process_exit" =>
          /\ exit_code = Some(0) <=> run_result = "ok"
          /\ exit_code = Some(1) <=> run_result \in {"new_err", "err"}
          /\ exit_code \in {Some(0), Some(1)}
    /\ run_result = "ok" => exiting
    /\ run_result = "new_err" =>
          /\ handler = "none"
          /\ ops = <<>>
          /\ created = NoCreated
          /\ app = AppDefault
          /\ nev = 0

\* C15 witness: run_app returned Err after an activation and main exited
\* with 1.
C15_Witness ==
    /\ pc = "process_exit"
    /\ run_result = "err"
    /\ exit_code = Some(1)
    /\ created.window > 0

\* C16: whenever no handler is running and every field is set, the stored
\* configuration is the one last applied, and it was applied to the stored
\* surface; so a redraw that acquires a frame acquires it from a surface
\* configured as stored.
C16_StoredIsApplied ==
    /\ (pc = "idle" /\ Ready(app)) =>
          /\ IsSome(applied)
          /\ Unwrap(applied).config = Unwrap(app.config)
          /\ Unwrap(applied).surface = Unwrap(app.surface)
    /\ (handler = "RedrawRequested" /\ ops # <<>>) =>
          /\ Unwrap(applied).config = Unwrap(app.config)
          /\ Unwrap(applied).surface = Unwrap(app.surface)

\* C16 witness: after a resize to 2x2, a redraw has acquired and presented a
\* frame from the surface, whose applied configuration is the stored 2x2 one.
C16_Witness ==
    /\ Returned("RedrawRequested") /\ outcome = "done"
    /\ req = [width |-> 2, height |-> 2]
    /\ Unwrap(app.config).width = 2
    /\ Unwrap(app.config).height = 2
    /\ Unwrap(applied).config = Unwrap(app.config)

\* C17: a close-requested handler that finds a device waits on it before its
\* first release, so every release happens with no submitted work pending;
\* one that finds no device makes no wait and still releases all six fields
\* and calls exit().
C17_WaitBeforeRelease ==
    /\ (handler = "CloseRequested" /\ pc = "c_release") =>
          /\ pending = 0
          /\ IsSome(pre.device) => Len(ops) >= 1 /\ ops[1] = "poll"
    /\ (handler = "CloseRequested" /\ IsSome(pre.device) /\ app # pre) =>
          Len(ops) >= 1 /\ ops[1] = "poll"
    /\ (handler = "CloseRequested" /\ IsNone(pre.device)) =>
          ~(\E i \in 1..Len(ops) : ops[i] = "poll")
    /\ (Returned("CloseRequested") /\ IsNone(pre.device)) =>
          /\ Len(ops) = 7
          /\ ops[1] = "render_pipeline = None"
          /\ ops[7] = "exit"
          /\ exiting
          /\ app = AppDefault

\* C17 witness: a close-requested handled in Ready has waited on the device
\* first and then released everything.
C17_Witness ==
    /\ Returned("CloseRequested")
    /\ Ready(pre)
    /\ ops[1] = "poll"
    /\ ops[2] = "render_pipeline = None"
    /\ pending = 0

\* C18: while and after a RedrawRequested is handled, whether its frame
\* acquisition succeeds or fails, every field of App is as the handler found
\* it, the surface is not reconfigured, and a handler that started in Ready
\* leaves the state Ready.
C18_RedrawChangesNothing ==
    handler = "RedrawRequested" =>
        /\ app = pre
        /\ Ready(pre) => Ready(app)
        /\ ~(\E i \in 1..Len(ops) : ops[i] = "configure")
        /\ (pc = "idle" /\ Ready(pre)) => outcome \in {"done", "acquire_failed"}

\* C18 witness: a redraw in Ready has drawn and presented its frame and
\* returned, with every field still set.
C18_Witness ==
    /\ Returned("RedrawRequested") /\ outcome = "done"
    /\ Ready(pre) /\ Ready(app)
    /\ frame = "presented"
    /\ app = pre

====
